---- MODULE Spec2Model ----
(***************************************************************************)
(* The frame loop of comfy (src/comfy/src/game_loop.rs): the closure that  *)
(* winit's event loop calls once per event.  Event::MainEventsCleared runs *)
(* one frame cycle; Event::WindowEvent is offered to the renderer/egui and *)
(* then dispatched into GLOBAL_STATE, the renderer resize or control_flow. *)
(*                                                                         *)
(* Time is counted in ticks of 1/30000 s, so that the three constants of   *)
(* the source are integers: 1/5000 s = 6, 1/60 s = 500, 1/10 s = 3000.     *)
(***************************************************************************)
EXTENDS Integers, FiniteSets, Sequences, TLC

VARIABLES
    \* GLOBAL_STATE: the shared input state.
    pressed, just_pressed, just_released,
    mouse_pressed, mouse_just_pressed, mouse_just_released,
    mouse_position, mouse_wheel,
    \* delta: the local of line 122; published_delta, time, frame_time and
    \* frame_num: the globals behind set_delta, set_time, set_frame_time and
    \* inc_frame_num; engine_frame: engine.frame; egui_frames: the number of
    \* egui().begin_frame calls.
    delta, published_delta, time, frame_time,
    engine_frame, frame_num, egui_frames,
    \* engine.quit_flag, *control_flow, and whether the host still calls the
    \* closure.
    quit_flag, control_flow, running,
    \* pc: the closure's position ("wait": not running); event: the event it
    \* was called with; consumed: on_event's answer; resize_call: the
    \* argument of the engine.resize call made for this event, if any.
    pc, event, consumed, resize_call,
    \* History: initiated holds the keys that went from released to held
    \* since the last frame-end clear and were not released since; cleared
    \* holds, during the step after the clear, what the clear wiped.
    initiated, cleared,
    \* late_delta: the delta last passed to run_late_update_stages; borrows:
    \* the number of live RefMut guards of GLOBAL_STATE.borrow_mut().
    late_delta, borrows

input == <<pressed, just_pressed, just_released,
           mouse_pressed, mouse_just_pressed, mouse_just_released,
           mouse_position, mouse_wheel>>

timing == <<delta, published_delta, time, frame_time,
            engine_frame, frame_num, egui_frames>>

vars == <<pressed, just_pressed, just_released,
          mouse_pressed, mouse_just_pressed, mouse_just_released,
          mouse_position, mouse_wheel,
          delta, published_delta, time, frame_time,
          engine_frame, frame_num, egui_frames,
          quit_flag, control_flow, running,
          pc, event, consumed, resize_call, initiated, cleared,
          late_delta, borrows>>

-----------------------------------------------------------------------------
(* Bounds of the model. *)

\* Number of frame cycles the host starts.
MaxFrames == 2

-----------------------------------------------------------------------------
(* Constants of the source, in ticks of 1/30000 s. *)

DeltaBoot == 500
DeltaMin == 6
DeltaMax == 3000

\* clamp without the upper limit.
clamp_NoUpper(x, lo, hi) == IF x < lo THEN lo ELSE x

\* delta.clamp(1.0 / 5000.0, 1.0 / 10.0)
clamp(x, lo, hi) == IF x < lo THEN lo ELSE IF x > hi THEN hi ELSE x

\* Wall-clock readings of frame_start.elapsed(): 0 s and 10 s.
Elapsed == {0, 300000}

\* min_resolution, as resolved at startup.
min_resolution == <<2, 2>>

-----------------------------------------------------------------------------
(* The events the host delivers. *)

None == "None"
NoCall == <<>>
NoEvent == [kind |-> "None"]

\* winit virtual keycodes; "F24" stands for a code KeyCode has no variant for.
WinitKeys == {"A", "B", "F24"}
KeyCodes == {"A", "B"}

\* KeyCode::try_from_winit: the logical key of a winit keycode, or None.
try_from_winit(code) == IF code \in KeyCodes THEN code ELSE None

\* virtual_keycode.and_then(KeyCode::try_from_winit)
and_then_try_from_winit(virtual_keycode) ==
    IF virtual_keycode = None THEN None ELSE try_from_winit(virtual_keycode)

\* The buttons the host reports in this model.
WinitButtons == {[tag |-> "Left", num |-> 0]}

\* The match on winit::event::MouseButton.
quad_button(button) ==
    CASE button.tag = "Left" -> [tag |-> "Left", num |-> 0]
      [] button.tag = "Right" -> [tag |-> "Right", num |-> 0]
      [] button.tag = "Middle" -> [tag |-> "Middle", num |-> 0]
      [] button.tag = "Other" -> [tag |-> "Other", num |-> button.num]

ElementStates == {"Pressed", "Released"}
Positions == {<<0, 0>>, <<3, 4>>}
LineDeltas == {<<1, 0>>, <<0, 2>>}
Sizes == {<<1, 3>>, <<3, 2>>, <<3, 3>>, <<4, 3>>}

WindowEvents ==
    [kind : {"KeyboardInput"}, state : ElementStates,
     virtual_keycode : WinitKeys \cup {None}]
    \cup [kind : {"CursorMoved"}, position : Positions]
    \cup [kind : {"MouseInput"}, state : ElementStates, button : WinitButtons]
    \cup [kind : {"MouseWheel"}, unit : {"LineDelta"}, delta : LineDeltas]
    \cup [kind : {"MouseWheel"}, unit : {"PixelDelta"}, delta : {<<5, 5>>}]
    \cup [kind : {"Resized"}, size : Sizes]
    \cup [kind : {"ScaleFactorChanged"}, size : Sizes]
    \cup [kind : {"CloseRequested"}]
    \cup [kind : {"Focused"}]

\* The value of `cleared` outside the step that follows the clear.
NothingCleared ==
    [just_pressed |-> {}, just_released |-> {}, mouse_just_pressed |-> {},
     mouse_just_released |-> {}, mouse_wheel |-> <<0, 0>>]

StagePcs == {"early", "game_update", "perf", "late"}

-----------------------------------------------------------------------------
Init ==
    /\ pressed = {} /\ just_pressed = {} /\ just_released = {}
    /\ mouse_pressed = {} /\ mouse_just_pressed = {}
    /\ mouse_just_released = {}
    /\ mouse_position = <<0, 0>>
    /\ mouse_wheel = <<0, 0>>
    /\ delta = DeltaBoot
    /\ published_delta = 0
    /\ time = 0
    /\ frame_time = 0
    /\ engine_frame = 0 /\ frame_num = 0 /\ egui_frames = 0
    /\ quit_flag = FALSE
    /\ control_flow = "Poll"
    /\ running = TRUE
    /\ pc = "wait"
    /\ event = NoEvent
    /\ consumed = FALSE
    /\ resize_call = NoCall
    /\ initiated = {}
    /\ cleared = NothingCleared
    /\ late_delta = 0
    /\ borrows = 0

-----------------------------------------------------------------------------
(* Event::WindowEvent *)

\* KeyboardInput with a key-down that leaves the key in just_released.
KeyboardInput_KeepsJustReleased(e) ==
    LET keycode == and_then_try_from_winit(e.virtual_keycode) IN
    /\ IF keycode = None
       THEN UNCHANGED <<pressed, just_pressed, just_released, initiated>>
       ELSE IF e.state = "Pressed"
       THEN /\ pressed' = pressed \cup {keycode}
            /\ just_pressed' = just_pressed \cup {keycode}
            /\ UNCHANGED just_released
            /\ initiated' = IF keycode \in pressed THEN initiated
                            ELSE initiated \cup {keycode}
       ELSE /\ pressed' = pressed \ {keycode}
            /\ just_pressed' = just_pressed \ {keycode}
            /\ just_released' = just_released \cup {keycode}
            /\ initiated' = initiated \ {keycode}
    /\ UNCHANGED <<mouse_pressed, mouse_just_pressed, mouse_just_released,
                   mouse_position, mouse_wheel, control_flow>>
    /\ resize_call' = NoCall

\* KeyboardInput with a key-up that leaves the key in just_pressed.
KeyboardInput_KeepsJustPressed(e) ==
    LET keycode == and_then_try_from_winit(e.virtual_keycode) IN
    /\ IF keycode = None
       THEN UNCHANGED <<pressed, just_pressed, just_released, initiated>>
       ELSE IF e.state = "Pressed"
       THEN /\ pressed' = pressed \cup {keycode}
            /\ just_pressed' = just_pressed \cup {keycode}
            /\ just_released' = just_released \ {keycode}
            /\ initiated' = IF keycode \in pressed THEN initiated
                            ELSE initiated \cup {keycode}
       ELSE /\ pressed' = pressed \ {keycode}
            /\ UNCHANGED just_pressed
            /\ just_released' = just_released \cup {keycode}
            /\ initiated' = initiated \ {keycode}
    /\ UNCHANGED <<mouse_pressed, mouse_just_pressed, mouse_just_released,
                   mouse_position, mouse_wheel, control_flow>>
    /\ resize_call' = NoCall

\* KeyboardInput with a key-up that leaves the key in pressed.
KeyboardInput_KeepsPressed(e) ==
    LET keycode == and_then_try_from_winit(e.virtual_keycode) IN
    /\ IF keycode = None
       THEN UNCHANGED <<pressed, just_pressed, just_released, initiated>>
       ELSE IF e.state = "Pressed"
       THEN /\ pressed' = pressed \cup {keycode}
            /\ just_pressed' = just_pressed \cup {keycode}
            /\ just_released' = just_released \ {keycode}
            /\ initiated' = IF keycode \in pressed THEN initiated
                            ELSE initiated \cup {keycode}
       ELSE /\ UNCHANGED pressed
            /\ just_pressed' = just_pressed \ {keycode}
            /\ just_released' = just_released \cup {keycode}
            /\ initiated' = initiated \ {keycode}
    /\ UNCHANGED <<mouse_pressed, mouse_just_pressed, mouse_just_released,
                   mouse_position, mouse_wheel, control_flow>>
    /\ resize_call' = NoCall

\* ElementState::Pressed / Released of WindowEvent::KeyboardInput.
KeyboardInput(e) ==
    LET keycode == and_then_try_from_winit(e.virtual_keycode) IN
    /\ IF keycode = None
       THEN UNCHANGED <<pressed, just_pressed, just_released, initiated>>
       ELSE IF e.state = "Pressed"
       THEN /\ pressed' = pressed \cup {keycode}
            /\ just_pressed' = just_pressed \cup {keycode}
            /\ just_released' = just_released \ {keycode}
            /\ initiated' = IF keycode \in pressed THEN initiated
                            ELSE initiated \cup {keycode}
       ELSE /\ pressed' = pressed \ {keycode}
            /\ just_pressed' = just_pressed \ {keycode}
            /\ just_released' = just_released \cup {keycode}
            /\ initiated' = initiated \ {keycode}
    /\ UNCHANGED <<mouse_pressed, mouse_just_pressed, mouse_just_released,
                   mouse_position, mouse_wheel, control_flow>>
    /\ resize_call' = NoCall

CursorMoved(e) ==
    /\ mouse_position' = e.position
    /\ UNCHANGED <<pressed, just_pressed, just_released, initiated,
                   mouse_pressed, mouse_just_pressed, mouse_just_released,
                   mouse_wheel, control_flow>>
    /\ resize_call' = NoCall

MouseInput(e) ==
    LET b == quad_button(e.button) IN
    /\ IF e.state = "Pressed"
       THEN /\ mouse_pressed' = mouse_pressed \cup {b}
            /\ mouse_just_pressed' = mouse_just_pressed \cup {b}
            /\ UNCHANGED mouse_just_released
       ELSE /\ mouse_pressed' = mouse_pressed \ {b}
            /\ mouse_just_pressed' = mouse_just_pressed \ {b}
            /\ mouse_just_released' = mouse_just_released \cup {b}
    /\ UNCHANGED <<pressed, just_pressed, just_released, initiated,
                   mouse_position, mouse_wheel, control_flow>>
    /\ resize_call' = NoCall

\* MouseWheel that stores a pixel delta as if it were a line delta.
MouseWheel_TakesPixels(e) ==
    /\ mouse_wheel' = e.delta
    /\ UNCHANGED <<pressed, just_pressed, just_released, initiated,
                   mouse_pressed, mouse_just_pressed, mouse_just_released,
                   mouse_position, control_flow>>
    /\ resize_call' = NoCall

\* MouseWheel with a line delta added to mouse_wheel, not stored over it.
MouseWheel_Sums(e) ==
    /\ IF e.unit = "LineDelta"
       THEN mouse_wheel' = <<mouse_wheel[1] + e.delta[1],
                             mouse_wheel[2] + e.delta[2]>>
       ELSE UNCHANGED mouse_wheel
    /\ UNCHANGED <<pressed, just_pressed, just_released, initiated,
                   mouse_pressed, mouse_just_pressed, mouse_just_released,
                   mouse_position, control_flow>>
    /\ resize_call' = NoCall

\* if let MouseScrollDelta::LineDelta(x, y) ... of WindowEvent::MouseWheel.
MouseWheel(e) ==
    /\ IF e.unit = "LineDelta"
       THEN mouse_wheel' = e.delta
       ELSE UNCHANGED mouse_wheel
    /\ UNCHANGED <<pressed, just_pressed, just_released, initiated,
                   mouse_pressed, mouse_just_pressed, mouse_just_released,
                   mouse_position, control_flow>>
    /\ resize_call' = NoCall

\* Resized with a gate that lets a size equal to the minimum through.
Resized_AtLeast(e) ==
    /\ IF e.size[1] >= min_resolution[1] /\ e.size[2] >= min_resolution[2]
       THEN resize_call' = e.size
       ELSE resize_call' = NoCall
    /\ UNCHANGED <<input, initiated, control_flow>>

\* WindowEvent::Resized: the resize is gated by min_resolution.
Resized(e) ==
    /\ IF e.size[1] > min_resolution[1] /\ e.size[2] > min_resolution[2]
       THEN resize_call' = e.size
       ELSE resize_call' = NoCall
    /\ UNCHANGED <<input, initiated, control_flow>>

\* ScaleFactorChanged behind the minimum-size gate of Resized.
ScaleFactorChanged_Gated(e) ==
    /\ IF e.size[1] > min_resolution[1] /\ e.size[2] > min_resolution[2]
       THEN resize_call' = e.size
       ELSE resize_call' = NoCall
    /\ UNCHANGED <<input, initiated, control_flow>>

\* WindowEvent::ScaleFactorChanged: the new inner size goes to engine.resize.
ScaleFactorChanged(e) ==
    /\ resize_call' = e.size
    /\ UNCHANGED <<input, initiated, control_flow>>

CloseRequested(e) ==
    /\ control_flow' = "Exit"
    /\ resize_call' = NoCall
    /\ UNCHANGED <<input, initiated>>

\* The arm `_ => {}` of the match on the window event.
OtherWindowEvent(e) ==
    /\ resize_call' = NoCall
    /\ UNCHANGED <<input, initiated, control_flow>>

\* The match on the window event, reached when on_event returned false.
Dispatch(e) ==
    CASE e.kind = "KeyboardInput" -> KeyboardInput(e)
      [] e.kind = "CursorMoved" -> CursorMoved(e)
      [] e.kind = "MouseInput" -> MouseInput(e)
      [] e.kind = "MouseWheel" -> MouseWheel(e)
      [] e.kind = "Resized" -> Resized(e)
      [] e.kind = "ScaleFactorChanged" -> ScaleFactorChanged(e)
      [] e.kind = "CloseRequested" -> CloseRequested(e)
      [] OTHER -> OtherWindowEvent(e)

\* HandleWindowEvent without the early return on a consumed event.
HandleWindowEvent_NoReturn(e, c) == Dispatch(e)

\* The arm Event::WindowEvent: on_event's answer c decides whether the event
\* is dispatched at all.
HandleWindowEvent(e, c) ==
    IF c
    THEN /\ resize_call' = NoCall
         /\ UNCHANGED <<input, initiated, control_flow>>
    ELSE Dispatch(e)

\* The RefMut guards of GLOBAL_STATE.borrow_mut() that are alive at the end
\* of the arm that dispatches e: `let mut state` of a mapped key, `let mut
\* global_state` of MouseInput and of MouseWheel.  The guard of CursorMoved
\* is a temporary of its statement.
ArmBorrows(e) ==
    CASE e.kind = "KeyboardInput" ->
            IF and_then_try_from_winit(e.virtual_keycode) = None THEN 0 ELSE 1
      [] e.kind = "MouseInput" -> 1
      [] e.kind = "MouseWheel" -> 1
      [] OTHER -> 0

\* The host calls the closure with a window event.
WindowEventDelivered ==
    /\ running /\ pc = "wait"
    /\ \E e \in WindowEvents : event' = e
    /\ pc' = "on_event"
    /\ UNCHANGED <<input, initiated, cleared, timing, quit_flag, control_flow,
                   running, consumed, resize_call>>
    /\ UNCHANGED <<late_delta, borrows>>

\* WindowEvent that also advances the global time by delta.
WindowEvent_AdvancesTime ==
    /\ pc = "on_event"
    /\ \E c \in BOOLEAN :
        /\ consumed' = c
        /\ HandleWindowEvent(event, c)
    /\ pc' = "handled"
    /\ time' = time + delta
    /\ UNCHANGED <<delta, published_delta, frame_time, engine_frame,
                   frame_num, egui_frames, quit_flag, running, event,
                   cleared>>
    /\ borrows' = borrows + (IF consumed' THEN 0 ELSE ArmBorrows(event))
    /\ UNCHANGED late_delta

\* engine.renderer.on_event(event, egui()) answers, and the handler runs to
\* its end.
WindowEvent ==
    /\ pc = "on_event"
    /\ \E c \in BOOLEAN :
        /\ consumed' = c
        /\ HandleWindowEvent(event, c)
    /\ pc' = "handled"
    /\ UNCHANGED <<timing, quit_flag, running, event, cleared>>
    /\ borrows' = borrows + (IF consumed' THEN 0 ELSE ArmBorrows(event))
    /\ UNCHANGED late_delta

\* The arm `_ => {}` of the match on the event (here Event::RedrawRequested).
OtherEvent ==
    /\ running /\ pc = "wait"
    /\ event' = [kind |-> "RedrawRequested"]
    /\ pc' = "handled"
    /\ UNCHANGED <<input, initiated, cleared, timing, quit_flag, control_flow,
                   running, consumed, resize_call>>
    /\ UNCHANGED <<late_delta, borrows>>

\* The arm ends, dropping its guard, and the closure returns to the host.
Return ==
    /\ pc = "handled"
    /\ pc' = "wait"
    /\ event' = NoEvent
    /\ consumed' = FALSE
    /\ resize_call' = NoCall
    /\ UNCHANGED <<input, initiated, cleared, timing, quit_flag, control_flow,
                   running>>
    /\ borrows' = borrows - (IF consumed THEN 0 ELSE ArmBorrows(event))
    /\ UNCHANGED late_delta

\* Once control_flow is Exit the host sends Event::LoopDestroyed, which the
\* closure ignores, and calls the closure no more.
LoopDestroyed ==
    /\ running /\ pc = "wait"
    /\ control_flow = "Exit"
    /\ running' = FALSE
    /\ UNCHANGED <<input, initiated, cleared,
                   timing, quit_flag, control_flow, pc,
                   event, consumed, resize_call>>
    /\ UNCHANGED <<late_delta, borrows>>

-----------------------------------------------------------------------------
(* Event::MainEventsCleared: one frame cycle, statement by statement. *)

\* FrameStart that advances the time by the delta published a cycle ago.
FrameStart_StaleDelta ==
    /\ running /\ pc = "wait"
    /\ engine_frame < MaxFrames
    /\ event' = [kind |-> "MainEventsCleared"]
    /\ published_delta' = delta
    /\ time' = time + published_delta
    /\ pc' = "quit_check"
    /\ UNCHANGED <<input, initiated, cleared, delta, frame_time,
                   engine_frame, frame_num, egui_frames, quit_flag,
                   control_flow, running, consumed, resize_call>>
    /\ UNCHANGED <<late_delta, borrows>>

\* loop_start, frame_start, set_delta, set_time, use_default_shader
FrameStart ==
    /\ running /\ pc = "wait"
    /\ engine_frame < MaxFrames
    /\ event' = [kind |-> "MainEventsCleared"]
    /\ published_delta' = delta
    /\ time' = time + delta
    /\ pc' = "quit_check"
    /\ UNCHANGED <<input, initiated, cleared, delta, frame_time, engine_frame,
                   frame_num, egui_frames, quit_flag, control_flow, running,
                   consumed, resize_call>>
    /\ UNCHANGED <<late_delta, borrows>>

\* QuitCheck with an else branch that puts the control signal back to Poll.
QuitCheck_Resets ==
    /\ pc = "quit_check"
    /\ control_flow' = IF quit_flag THEN "Exit" ELSE "Poll"
    /\ pc' = "begin_frame"
    /\ UNCHANGED <<input, initiated, cleared, timing, quit_flag, running,
                   event, consumed, resize_call>>
    /\ UNCHANGED <<late_delta, borrows>>

\* if engine.quit_flag { *control_flow = ControlFlow::Exit; }
QuitCheckNext(q) == "begin_frame"

QuitCheck ==
    /\ pc = "quit_check"
    /\ control_flow' = IF quit_flag THEN "Exit" ELSE control_flow
    /\ pc' = QuitCheckNext(quit_flag)
    /\ UNCHANGED <<input, initiated, cleared,
                   timing, quit_flag, running, event,
                   consumed, resize_call>>
    /\ UNCHANGED <<late_delta, borrows>>

\* BeginFrame that takes the borrow of the clear block before the stages.
BeginFrame_HoldsBorrow ==
    /\ pc = "begin_frame"
    /\ egui_frames' = egui_frames + 1
    /\ engine_frame' = engine_frame + 1
    /\ pc' = "early"
    /\ UNCHANGED <<input, initiated, cleared, delta, published_delta, time,
                   frame_time, frame_num, quit_flag, control_flow, running,
                   event, consumed, resize_call>>
    /\ borrows' = borrows + 1
    /\ UNCHANGED late_delta

\* egui().begin_frame(...); engine.frame += 1
BeginFrame ==
    /\ pc = "begin_frame"
    /\ egui_frames' = egui_frames + 1
    /\ engine_frame' = engine_frame + 1
    /\ pc' = "early"
    /\ UNCHANGED <<input, initiated, cleared, delta, published_delta, time,
                   frame_time, frame_num, quit_flag, control_flow, running,
                   event, consumed, resize_call>>
    /\ UNCHANGED <<late_delta, borrows>>

\* run_early_update_stages(&mut c)
EarlyStages ==
    /\ pc = "early"
    /\ pc' = "game_update"
    /\ UNCHANGED <<input, initiated, cleared, timing, quit_flag, control_flow,
                   running, event, consumed, resize_call>>
    /\ UNCHANGED <<late_delta, borrows>>

\* game.update(&mut c): the consumer may set or leave the quit flag.
GameUpdate ==
    /\ pc = "game_update"
    /\ \E q \in BOOLEAN : quit_flag' = q
    /\ pc' = "perf"
    /\ UNCHANGED <<input, initiated, cleared,
                   timing, control_flow, running, event,
                   consumed, resize_call>>
    /\ UNCHANGED <<late_delta, borrows>>

\* PerfCounters followed by the clear, ahead of the late stages.
PerfCounters_ThenClear ==
    /\ pc = "perf"
    /\ pc' = "clear"
    /\ UNCHANGED <<input, initiated, cleared, timing, quit_flag, control_flow,
                   running, event, consumed, resize_call>>
    /\ UNCHANGED <<late_delta, borrows>>

\* update_perf_counters(&mut c, &game)
PerfCounters ==
    /\ pc = "perf"
    /\ pc' = "late"
    /\ UNCHANGED <<input, initiated, cleared, timing, quit_flag, control_flow,
                   running, event, consumed, resize_call>>
    /\ UNCHANGED <<late_delta, borrows>>

\* run_late_update_stages(&mut c, delta)
LateStages ==
    /\ pc = "late"
    /\ pc' = "clear"
    /\ UNCHANGED <<input, initiated, cleared, timing, quit_flag, control_flow,
                   running, event, consumed, resize_call>>
    /\ late_delta' = delta
    /\ UNCHANGED borrows

\* ClearInput without the reset of mouse_wheel.
ClearInput_KeepsWheel ==
    /\ pc = "clear"
    /\ just_pressed' = {}
    /\ just_released' = {}
    /\ mouse_just_pressed' = {}
    /\ mouse_just_released' = {}
    /\ UNCHANGED mouse_wheel
    /\ initiated' = {}
    /\ cleared' = [just_pressed |-> just_pressed,
                   just_released |-> just_released,
                   mouse_just_pressed |-> mouse_just_pressed,
                   mouse_just_released |-> mouse_just_released,
                   mouse_wheel |-> mouse_wheel]
    /\ pc' = "pace"
    /\ UNCHANGED <<pressed, mouse_pressed, mouse_position, timing, quit_flag,
                   control_flow, running, event, consumed, resize_call>>
    /\ borrows' = borrows + 1
    /\ UNCHANGED late_delta

\* ClearInput that also empties pressed and mouse_pressed.
ClearInput_ClearsPressed ==
    /\ pc = "clear"
    /\ just_pressed' = {}
    /\ just_released' = {}
    /\ mouse_just_pressed' = {}
    /\ mouse_just_released' = {}
    /\ mouse_wheel' = <<0, 0>>
    /\ pressed' = {}
    /\ mouse_pressed' = {}
    /\ initiated' = {}
    /\ cleared' = [just_pressed |-> just_pressed,
                   just_released |-> just_released,
                   mouse_just_pressed |-> mouse_just_pressed,
                   mouse_just_released |-> mouse_just_released,
                   mouse_wheel |-> mouse_wheel]
    /\ pc' = "pace"
    /\ UNCHANGED <<mouse_position, timing, quit_flag,
                   control_flow, running, event, consumed, resize_call>>
    /\ borrows' = borrows + 1
    /\ UNCHANGED late_delta

\* The block that clears the just_* sets and mouse_wheel, up to its last
\* statement: the guard of its borrow_mut is still alive.
ClearInput ==
    /\ pc = "clear"
    /\ just_pressed' = {}
    /\ just_released' = {}
    /\ mouse_just_pressed' = {}
    /\ mouse_just_released' = {}
    /\ mouse_wheel' = <<0, 0>>
    /\ initiated' = {}
    /\ cleared' = [just_pressed |-> just_pressed,
                   just_released |-> just_released,
                   mouse_just_pressed |-> mouse_just_pressed,
                   mouse_just_released |-> mouse_just_released,
                   mouse_wheel |-> mouse_wheel]
    /\ pc' = "pace"
    /\ UNCHANGED <<pressed, mouse_pressed, mouse_position, timing, quit_flag,
                   control_flow, running, event, consumed, resize_call>>
    /\ borrows' = borrows + 1
    /\ UNCHANGED late_delta

\* The clear block ends and drops its guard; then set_frame_time,
\* inc_frame_num, loop_sleep, delta = elapsed.clamp(..)
Pace ==
    /\ pc = "pace"
    /\ \E work \in Elapsed, total \in Elapsed :
        /\ work <= total
        /\ frame_time' = work
        /\ delta' = clamp(total, DeltaMin, DeltaMax)
    /\ frame_num' = frame_num + 1
    /\ pc' = "wait"
    /\ event' = NoEvent
    /\ cleared' = NothingCleared
    /\ UNCHANGED <<input, initiated, published_delta, time, engine_frame,
                   egui_frames, quit_flag, control_flow, running, consumed,
                   resize_call>>
    /\ borrows' = borrows - 1
    /\ UNCHANGED late_delta

-----------------------------------------------------------------------------
Next ==
    \/ WindowEventDelivered
    \/ WindowEvent
    \/ OtherEvent
    \/ Return
    \/ LoopDestroyed
    \/ FrameStart
    \/ QuitCheck
    \/ BeginFrame
    \/ EarlyStages
    \/ GameUpdate
    \/ PerfCounters
    \/ LateStages
    \/ ClearInput
    \/ Pace

Spec == Init /\ [][Next]_vars

-----------------------------------------------------------------------------
(* Properties. *)

Left == [tag |-> "Left", num |-> 0]

\* The window-event handler is about to act on an event of this kind.
Handling(kind) == pc = "on_event" /\ event.kind = kind

\* The window-event handler has acted on an unconsumed event of this kind.
Dispatched(kind) == pc = "handled" /\ event.kind = kind /\ ~consumed

\* C1: when on_event reports a window event as consumed, handling it changes
\* no key set, no mouse-button set, neither mouse_position nor mouse_wheel,
\* issues no renderer resize and leaves the loop control signal as it was.
C1_ConsumedEventChangesNothing ==
    [][(pc = "on_event" /\ consumed') =>
          /\ UNCHANGED input
          /\ resize_call' = NoCall
          /\ control_flow' = control_flow]_vars

\* A consumed key-down for A has been handled and A is not in just_pressed;
\* a consumed close request has been handled and the loop still polls.
C1_Witness ==
    /\ pc = "handled" /\ consumed
    /\ event.kind = "KeyboardInput"
    /\ event.state = "Pressed" /\ event.virtual_keycode = "A"
    /\ "A" \notin just_pressed /\ "A" \notin pressed

\* C2: an unconsumed close request sets the control signal to Exit, and no
\* update stage (early stages, game update, perf counters, late stages) runs
\* while the control signal is Exit.
C2_CloseStopsStages ==
    [][/\ (Handling("CloseRequested") /\ ~consumed') => control_flow' = "Exit"
       /\ control_flow' = "Exit" => pc' \notin StagePcs]_vars

\* C3: when the quit flag is set at the check, the control signal becomes
\* Exit and the cycle ends there: no begin_frame, no frame count, no update
\* stage, no clear and no new delta.
C3_QuitSkipsCycle ==
    [][(pc = "quit_check" /\ quit_flag) =>
          /\ control_flow' = "Exit"
          /\ pc' = "wait"
          /\ UNCHANGED <<input, timing>>]_vars

\* C4: just_pressed is a subset of pressed and mouse_just_pressed is a subset
\* of mouse_pressed, in every reachable state.
C4_JustPressedSubset ==
    /\ just_pressed \subseteq pressed
    /\ mouse_just_pressed \subseteq mouse_pressed

\* After a frame-end clear, a key and a button have just been pressed while
\* another key is held from an earlier frame.
C4_Witness ==
    /\ engine_frame >= 1
    /\ just_pressed = {"A"} /\ pressed = {"A", "B"}
    /\ mouse_just_pressed = {Left}

\* C5: after an unconsumed mouse-button-down for b, b is in mouse_pressed and
\* mouse_just_pressed and not in mouse_just_released; and no button is ever
\* in both mouse_just_pressed and mouse_just_released.
C5_MouseEdgeLikeKeys ==
    /\ (Dispatched("MouseInput") /\ event.state = "Pressed") =>
          LET b == quad_button(event.button) IN
          /\ b \in mouse_pressed
          /\ b \in mouse_just_pressed
          /\ b \notin mouse_just_released
    /\ mouse_just_pressed \cap mouse_just_released = {}


\* C6: a key whose last key event before a frame-end clear was an unconsumed
\* key-up (so every down/up sequence for it in that clear-cycle ended in a
\* key-up) is in none of pressed, just_pressed and just_released after the
\* clear.
C6_DownUpLeavesNoTrace ==
    pc = "pace" =>
        \A k \in cleared.just_released :
            /\ k \notin pressed
            /\ k \notin just_pressed
            /\ k \notin just_released

\* The clear has just run in a cycle in which A went down and up again.
C6_Witness ==
    /\ pc = "pace"
    /\ "A" \in cleared.just_released
    /\ "A" \notin pressed /\ just_released = {}

\* C7: during the update stages, a held key is in pressed, and it is in
\* just_pressed exactly when its initiating down-event was dispatched since
\* the last frame-end clear.
C7_JustPressedOnlyOnFirstFrame ==
    pc \in StagePcs =>
        \A k \in KeyCodes :
            /\ k \in initiated => (k \in pressed /\ k \in just_pressed)
            /\ (k \in pressed /\ k \notin initiated) => k \notin just_pressed

\* C8: right after the frame-end clear, mouse_wheel is (0,0) and just_pressed,
\* just_released, mouse_just_pressed and mouse_just_released are all empty.
C8_ClearResetsEdges ==
    pc = "pace" =>
        /\ mouse_wheel = <<0, 0>>
        /\ just_pressed = {} /\ just_released = {}
        /\ mouse_just_pressed = {} /\ mouse_just_released = {}

\* The clear has just run after a frame with scroll, key and button events.
C8_Witness ==
    /\ pc = "pace"
    /\ cleared.mouse_wheel = <<0, 2>>
    /\ cleared.just_pressed = {"A"} /\ cleared.just_released = {"B"}
    /\ cleared.mouse_just_pressed = {Left}
    /\ cleared.mouse_just_released = {Left}
    /\ mouse_wheel = <<0, 0>>

\* C9: an unconsumed line-delta scroll event sets mouse_wheel to its own
\* delta, and nothing but such an event and the frame-end clear changes
\* mouse_wheel; so the update stages see the delta of the last such event
\* since the previous clear, never a sum.
C9_ScrollLastWins ==
    [][/\ (Handling("MouseWheel") /\ event.unit = "LineDelta" /\ ~consumed')
             => mouse_wheel' = event.delta
       /\ mouse_wheel' # mouse_wheel =>
             \/ pc = "clear"
             \/ Handling("MouseWheel") /\ event.unit = "LineDelta"
                   /\ ~consumed']_vars

\* The update stages of a frame see (0,2), the delta of the last scroll.
C9_Witness ==
    /\ pc = "game_update"
    /\ mouse_wheel = <<0, 2>>

\* C10: an unconsumed resize event calls the renderer resize with its size
\* when width and height both exceed the minimum, makes no call otherwise,
\* and changes neither the input state nor the control signal.
C10_ResizeGate ==
    [][(Handling("Resized") /\ ~consumed') =>
          /\ resize_call' =
                IF event.size[1] > min_resolution[1]
                      /\ event.size[2] > min_resolution[2]
                THEN event.size ELSE NoCall
          /\ UNCHANGED <<input, control_flow>>]_vars

\* A resize whose height equals the minimum height was dispatched and no
\* renderer resize was called.
C10_Witness ==
    /\ Dispatched("Resized")
    /\ event.size = <<3, 2>>
    /\ resize_call = NoCall

\* C11: the delta published at the start of a frame cycle, the first one
\* included, lies within [1/5000 s, 1/10 s], whatever the elapsed time
\* measured in the cycle before.
C11_PublishedDeltaInRange ==
    /\ DeltaMin <= delta /\ delta <= DeltaMax
    /\ (event.kind = "MainEventsCleared" \/ frame_num >= 1) =>
          (DeltaMin <= published_delta /\ published_delta <= DeltaMax)

\* The second cycle publishes 1/10 s after a first cycle that took 10 s.
C11_Witness ==
    /\ pc = "early" /\ engine_frame = 2
    /\ published_delta = DeltaMax

\* A step of the closure that handles an event other than the wake.
NonWakeStep ==
    \/ pc = "wait" /\ pc' \in {"on_event", "handled"}
    \/ pc \in {"on_event", "handled"}
    \/ running /\ ~running'

\* C12: handling an event other than MainEventsCleared changes neither the
\* frame counters nor the published delta, the stored delta, the global time
\* or frame_time, and starts no update stage.
C12_EventsLeaveTimingAlone ==
    [][NonWakeStep =>
          /\ UNCHANGED <<timing, late_delta>>
          /\ pc' \in {"wait", "on_event", "handled"}]_vars

\* An unconsumed close request was handled after one frame cycle; the time is
\* still that of the cycle.
C12_Witness ==
    /\ Dispatched("CloseRequested")
    /\ engine_frame = 1 /\ frame_num = 1
    /\ time = DeltaBoot /\ published_delta = DeltaBoot

\* C13: the frame-end clear changes none of pressed, mouse_pressed and
\* mouse_position, and a key or button leaves pressed or mouse_pressed only
\* in the handling of an unconsumed release event for that key or button.
C13_PressedOnlyReleasedByEvent ==
    [][/\ pc = "clear" => UNCHANGED <<pressed, mouse_pressed, mouse_position>>
       /\ \A k \in pressed \ pressed' :
             /\ Handling("KeyboardInput") /\ ~consumed'
             /\ event.state = "Released"
             /\ and_then_try_from_winit(event.virtual_keycode) = k
       /\ \A b \in mouse_pressed \ mouse_pressed' :
             /\ Handling("MouseInput") /\ ~consumed'
             /\ event.state = "Released"
             /\ quad_button(event.button) = b]_vars

\* The clear of the second frame cycle has run and a key and a button that
\* went down before that cycle are still reported as pressed.
C13_Witness ==
    /\ pc = "pace" /\ engine_frame = 2
    /\ cleared.just_pressed = {} /\ cleared.mouse_just_pressed = {}
    /\ pressed = {"A"} /\ mouse_pressed = {Left}
    /\ mouse_position = <<3, 4>>

\* C14: the update stages run in the order early stages, game update, perf
\* counters, late stages; the clear runs once per cycle, right after the late
\* stages; no event is dispatched and the input state does not change from
\* the start of the early stages to the clear.
C14_StagesThenClear ==
    [][/\ pc' = "early" => pc = "begin_frame"
       /\ pc = "early" => pc' = "game_update"
       /\ pc = "game_update" => pc' = "perf"
       /\ pc = "perf" => pc' = "late"
       /\ pc = "late" => pc' = "clear"
       /\ pc' = "clear" => pc = "late"
       /\ pc = "clear" => pc' = "pace"
       /\ pc' = "on_event" => pc = "wait"
       /\ pc \in StagePcs => UNCHANGED input]_vars

\* The late stages are done and the clear is next, with the presses,
\* releases and the scroll of this frame still in place.
C14_Witness ==
    /\ pc = "clear" /\ late_delta = published_delta
    /\ just_pressed = {"A"} /\ just_released = {"B"}
    /\ mouse_just_pressed = {Left}
    /\ mouse_wheel = <<1, 0>>

\* C15: a frame cycle publishes the delta stored by the cycle before (1/60 s
\* in the first cycle), which is a clamped elapsed time; the global time grows
\* by exactly that delta, so it strictly increases; and the late stages of
\* the cycle are passed that same delta.
C15_DeltaOfPreviousCycle ==
    [][/\ (pc = "wait" /\ pc' = "quit_check") =>
             /\ published_delta' = delta
             /\ time' = time + delta
             /\ time' > time
             /\ engine_frame = 0 => published_delta' = DeltaBoot
       /\ pc = "late" => late_delta' = published_delta
       /\ pc = "pace" =>
             \E t \in Elapsed : delta' = clamp(t, DeltaMin, DeltaMax)]_vars

\* The late stages of the second cycle were passed 1/10 s, the delta stored
\* by the first cycle, and the time is 1/60 s + 1/10 s.
C15_Witness ==
    /\ pc = "clear" /\ engine_frame = 2
    /\ late_delta = DeltaMax /\ published_delta = DeltaMax
    /\ time = DeltaBoot + DeltaMax

\* C16: an unconsumed scale-factor change calls the renderer resize with its
\* new size, whatever the size, and changes no input state.
C16_ScaleFactorAlwaysResizes ==
    [][(Handling("ScaleFactorChanged") /\ ~consumed') =>
          /\ resize_call' = event.size
          /\ UNCHANGED input]_vars

\* A scale-factor change to a size below the minimum width was dispatched
\* and the renderer resize was called with it.
C16_Witness ==
    /\ Dispatched("ScaleFactorChanged")
    /\ event.size = <<1, 3>>
    /\ resize_call = <<1, 3>>

\* The window event being handled is a key event without a logical key or a
\* scroll in pixels.
UnsupportedInput ==
    \/ /\ Handling("KeyboardInput")
       /\ and_then_try_from_winit(event.virtual_keycode) = None
    \/ /\ Handling("MouseWheel")
       /\ event.unit = "PixelDelta"

\* C17: an unconsumed key event whose keycode is absent or maps to no logical
\* key, and an unconsumed scroll event in pixels, change nothing of the input
\* state and leave the control signal as it was.
C17_UnsupportedInputDropped ==
    [][(UnsupportedInput /\ ~consumed') =>
          UNCHANGED <<input, control_flow>>]_vars

\* A pixel scroll was dispatched after a line scroll of (1,0): mouse_wheel
\* still holds (1,0) and the loop still runs.
C17_Witness ==
    /\ Dispatched("MouseWheel")
    /\ event.unit = "PixelDelta"
    /\ mouse_wheel = <<1, 0>>
    /\ control_flow = "Poll"

\* C18: once the control signal is Exit no step sets it to another value, and
\* it goes from Poll to Exit only at the quit check with the quit flag set
\* and in the handling of an unconsumed close request.
C18_ExitIsTerminal ==
    [][/\ control_flow = "Exit" => control_flow' = "Exit"
       /\ (control_flow = "Poll" /\ control_flow' = "Exit") =>
             \/ pc = "quit_check" /\ quit_flag
             \/ Handling("CloseRequested") /\ ~consumed']_vars

\* The second frame cycle has run past its stages and its clear with the
\* control signal Exit, and the signal is still Exit.
C18_Witness ==
    /\ pc = "pace" /\ engine_frame = 2
    /\ ~quit_flag
    /\ control_flow = "Exit"

\* C19: no key is in both just_pressed and just_released, and no key is in
\* both pressed and just_released, in every reachable state.
C19_ReleasedKeysDisjoint ==
    /\ just_pressed \cap just_released = {}
    /\ pressed \cap just_released = {}

\* A key-down for A was dispatched in a frame in which B was released, after
\* a frame-end clear.
C19_Witness ==
    /\ Dispatched("KeyboardInput")
    /\ event.state = "Pressed" /\ event.virtual_keycode = "A"
    /\ engine_frame >= 1
    /\ just_pressed = {"A"} /\ pressed = {"A"}
    /\ just_released = {"B"}

\* C20: at most one guard of GLOBAL_STATE.borrow_mut() is alive at a time,
\* and none is alive when the closure is entered, while on_event runs, at the
\* quit check, in begin_frame or while the update stages run: a guard lives
\* only inside the arm or the clear block that took it.
C20_NoNestedBorrow ==
    /\ borrows <= 1
    /\ pc \notin {"handled", "pace"} => borrows = 0

\* The MouseInput arm has run to its end and its one guard is still alive.
C20_Witness ==
    /\ Dispatched("MouseInput")
    /\ borrows = 1
    /\ engine_frame >= 1

====
